---- MODULE Spec2Model ----
(***************************************************************************)
(* Cache-aside users API (app/users/route.ts): GET reads through a Redis   *)
(* snapshot of the whole users table, POST upserts a batch in one          *)
(* PostgreSQL transaction and then deletes the snapshot.                   *)
(*                                                                         *)
(* Every `await` of a handler is one step of the model, so requests        *)
(* interleave exactly where the event loop lets them.  Each call to Redis  *)
(* or PostgreSQL either succeeds or rejects; which one is the              *)
(* environment's choice.  JSON text is a sequence of tokens, so that       *)
(* JSON.stringify and JSON.parse are real conversions.                     *)
(***************************************************************************)
EXTENDS Integers, Sequences, FiniteSets, TLC

VARIABLES
    redis,      \* the Redis keyspace: key -> [val, ttl]
    table,      \* committed rows of the users table, in heap order
    poolHeld,   \* pool clients checked out and not yet released
    pc,         \* where each request handler is suspended
    cached,     \* GET: const cached = await redis.get(...)
    users,      \* GET: const users = await readUsers(); POST: const users = [...]
    pending,    \* POST: rows upserted in the open transaction, uncommitted
    idx,        \* POST: position of the for-loop over users
    err,        \* writeUsers: the error caught by catch (err)
    thrown,     \* the error that reached the handler's catch (console.error)
    resp,       \* the NextResponse of the request
    calls,      \* the calls the request has issued so far, in order
    reqBody,    \* POST: the body the request carried
    tableAtStart, \* POST: the committed table when the request arrived
    elapsed,    \* stopwatch: time since the last successful invalidation
    hist        \* history: which GET is the first one after a finished POST

vars == <<redis, table, poolHeld, pc, cached, users, pending, idx, err,
          thrown, resp, calls, reqBody, tableAtStart, elapsed, hist>>

(***************************************************************************)
(* Bounds and program constants                                            *)
(***************************************************************************)
MaxBatch == 2
TicksPerTTL == 2

USERS_CACHE_KEY == "users"
USERS_CACHE_TTL == 60

Readers == {"r1"}
Writers == {"w1"}
Procs == Readers \cup Writers

Undefined == "<undefined>"
NoError == "<none>"

(* The records requests may carry.  U1b updates U1; UNoId has no id. *)
U1 == [id |-> "1", name |-> "John Doe", email |-> "john@example.com",
       age |-> 30]
U1b == [id |-> "1", name |-> "John Doe Updated",
        email |-> "john.updated@example.com", age |-> 31]
U2 == [id |-> "2", name |-> "Jane Smith", email |-> "jane@example.com",
       age |-> 25]
UNoId == [id |-> Undefined, name |-> "Bob Johnson",
          email |-> "bob@example.com", age |-> 35]
UserPool == {U1, U1b, U2, UNoId}

Ages == {u.age : u \in UserPool}

RECURSIVE SeqsUpTo(_, _)
SeqsUpTo(S, n) ==
    IF n = 0 THEN {<<>>}
    ELSE LET shorter == SeqsUpTo(S, n - 1)
         IN shorter \cup {Append(s, x) : s \in {t \in shorter : Len(t) = n - 1}, x \in S}

(* The arrays a request may carry.  The loop of writeUsers stops at the     *)
(* first record without id, so such a record is drawn in last place only.  *)
Batches ==
    {s \in SeqsUpTo(UserPool, MaxBatch) :
        \A i \in 1..Len(s) : s[i].id = Undefined => i = Len(s)}

(* Request bodies: text that is not JSON, one object, or an array. *)
Bodies ==
    {[kind |-> "invalid", val |-> <<>>]}
    \cup {[kind |-> "object", val |-> u] : u \in UserPool}
    \cup {[kind |-> "array", val |-> s] : s \in Batches}

(***************************************************************************)
(* JSON                                                                    *)
(***************************************************************************)
JsNull == [type |-> "null", str |-> <<>>]
JsString(s) == [type |-> "string", str |-> s]

UserTokens == 10

JSONstringifyUser(u) ==
    <<"{", "id", u.id, "name", u.name, "email", u.email, "age", ToString(u.age), "}">>

RECURSIVE JSONstringifyItems(_)
JSONstringifyItems(us) ==
    IF us = <<>> THEN <<>>
    ELSE JSONstringifyUser(Head(us)) \o JSONstringifyItems(Tail(us))

JSONstringify(us) == <<"[">> \o JSONstringifyItems(us) \o <<"]">>

ObjectWellFormed(t) ==
    /\ Len(t) = UserTokens
    /\ t[1] = "{" /\ t[2] = "id" /\ t[4] = "name" /\ t[6] = "email"
    /\ t[8] = "age" /\ t[10] = "}"
    /\ \E a \in Ages : ToString(a) = t[9]

JSONparseUser(t) ==
    [id |-> t[3], name |-> t[5], email |-> t[7],
     age |-> CHOOSE a \in Ages : ToString(a) = t[9]]

RECURSIVE ItemsWellFormed(_)
ItemsWellFormed(t) ==
    \/ t = <<>>
    \/ /\ Len(t) >= UserTokens
       /\ ObjectWellFormed(SubSeq(t, 1, UserTokens))
       /\ ItemsWellFormed(SubSeq(t, UserTokens + 1, Len(t)))

RECURSIVE JSONparseItems(_)
JSONparseItems(t) ==
    IF t = <<>> THEN <<>>
    ELSE <<JSONparseUser(SubSeq(t, 1, UserTokens))>>
         \o JSONparseItems(SubSeq(t, UserTokens + 1, Len(t)))

(* JSON.parse throws a SyntaxError on text that is not JSON. *)
WellFormed(s) ==
    /\ Len(s) >= 2
    /\ s[1] = "[" /\ s[Len(s)] = "]"
    /\ ItemsWellFormed(SubSeq(s, 2, Len(s) - 1))

JSONparse(s) == JSONparseItems(SubSeq(s, 2, Len(s) - 1))

(* Mutant of Truthy: the hit test never passes. *)
TruthyNever(c) == FALSE

(* if (cached): null and the empty string are falsy. *)
Truthy(c) == c.type = "string" /\ c.str # <<>>

(***************************************************************************)
(* Responses                                                               *)
(***************************************************************************)
NoResponse == [status |-> 0, json |-> <<>>]

UsersResponse(us) == [status |-> 200, json |-> JSONstringify(us)]

FetchFailure ==
    [status |-> 500, json |-> <<"{", "error", "Failed to fetch users", "}">>]

(* Mutant of WriteSuccess: count is the number of distinct identifiers. *)
WriteSuccessDistinct(us) ==
    [status |-> 200,
     json |-> <<"{", "success", "true", "count",
                ToString(Cardinality({us[i].id : i \in 1..Len(us)})), "}">>]

WriteSuccess(us) ==
    [status |-> 200,
     json |-> <<"{", "success", "true", "count", ToString(Len(us)), "}">>]

(* Mutant of WriteFailure: a body that is not JSON is answered 400. *)
WriteFailureBadRequest ==
    [status |-> 400, json |-> <<"{", "error", "Invalid JSON", "}">>]

WriteFailure ==
    [status |-> 500, json |-> <<"{", "error", "Failed to write users", "}">>]

(***************************************************************************)
(* Redis                                                                   *)
(***************************************************************************)
RedisGetValue(store, key) ==
    IF key \in DOMAIN store THEN JsString(store[key].val) ELSE JsNull

(* Mutant of RedisSetEx: the expiry is taken as milliseconds (PX). *)
RedisSetPx(store, key, val, ttl) ==
    [k \in DOMAIN store \cup {key} |->
        IF k = key THEN [val |-> val, ttl |-> ttl \div 1000] ELSE store[k]]

RedisSetEx(store, key, val, ttl) ==
    [k \in DOMAIN store \cup {key} |->
        IF k = key THEN [val |-> val, ttl |-> ttl] ELSE store[k]]

(* Mutant of RedisDelKey: the delete removes nothing. *)
RedisDelNothing(store, key) == store

RedisDelKey(store, key) ==
    [k \in DOMAIN store \ {key} |-> store[k]]

(***************************************************************************)
(* PostgreSQL                                                              *)
(***************************************************************************)
(* Mutant of readUsers: the query carries LIMIT 1. *)
readUsersLimitOne(tbl) == IF tbl = <<>> THEN <<>> ELSE <<tbl[1]>>

(* SELECT id, name, email, age FROM users *)
readUsers(tbl) == tbl

(* Mutant of Upsert: a plain INSERT into a table without the key. *)
UpsertAppend(tbl, u) == Append(tbl, u)

(* Mutant of Upsert: ON CONFLICT (id) DO NOTHING. *)
UpsertDoNothing(tbl, u) ==
    IF \E i \in 1..Len(tbl) : tbl[i].id = u.id THEN tbl ELSE Append(tbl, u)

(* INSERT ... ON CONFLICT (id) DO UPDATE SET name, email, age *)
Upsert(tbl, u) ==
    IF \E i \in 1..Len(tbl) : tbl[i].id = u.id
    THEN [i \in 1..Len(tbl) |-> IF tbl[i].id = u.id THEN u ELSE tbl[i]]
    ELSE Append(tbl, u)

RECURSIVE ApplyAll(_, _)
ApplyAll(tbl, us) ==
    IF us = <<>> THEN tbl ELSE ApplyAll(Upsert(tbl, Head(us)), Tail(us))

(* id is the PRIMARY KEY: a row without one violates NOT NULL. *)
InsertAccepted(u) == u.id # Undefined

(* Mutant of Normalize: Array.from(body), which is [] for a plain object. *)
NormalizeArrayFrom(body) == IF body.kind = "array" THEN body.val ELSE <<>>

(* const users = Array.isArray(body) ? body : [body] *)
Normalize(body) == IF body.kind = "array" THEN body.val ELSE <<body.val>>

Resting(p) == pc[p] \in {"idle", "done"}

(* History of the order of requests.  hist.quiet: the last POST to finish  *)
(* answered success while no GET was in flight, and no request has called  *)
(* anything since.  hist.fresh[r]: the GET of r arrived in such a moment   *)
(* and no POST has called writeUsers since.                                *)
NoOrder == [quiet |-> FALSE, fresh |-> [r \in Readers |-> FALSE]]

OrderAtGet(r) ==
    [quiet |-> FALSE, fresh |-> [hist.fresh EXCEPT ![r] = hist.quiet]]

OrderAtPostEnd ==
    [quiet |-> \A r \in Readers : Resting(r),
     fresh |-> [r \in Readers |-> FALSE]]

(***************************************************************************)
(* Initial state: empty cache, empty table, no request in flight           *)
(***************************************************************************)
Init ==
    /\ redis = <<>>
    /\ table = <<>>
    /\ poolHeld = 0
    /\ pc = [p \in Procs |-> "idle"]
    /\ cached = [r \in Readers |-> JsNull]
    /\ users = [p \in Procs |-> <<>>]
    /\ pending = [w \in Writers |-> <<>>]
    /\ idx = [w \in Writers |-> 0]
    /\ err = [w \in Writers |-> NoError]
    /\ thrown = [p \in Procs |-> NoError]
    /\ resp = [p \in Procs |-> NoResponse]
    /\ calls = [p \in Procs |-> <<>>]
    /\ reqBody = [w \in Writers |-> [kind |-> "invalid", val |-> <<>>]]
    /\ tableAtStart = [w \in Writers |-> <<>>]
    /\ elapsed = 0
    /\ hist = NoOrder

Issue(p, call) == calls' = [calls EXCEPT ![p] = Append(@, call)]

(***************************************************************************)
(* GET                                                                     *)
(***************************************************************************)
(* catch (err) of GET: log the error, answer the generic failure. *)
GetCatch(r, e) ==
    /\ thrown' = [thrown EXCEPT ![r] = e]
    /\ resp' = [resp EXCEPT ![r] = FetchFailure]
    /\ pc' = [pc EXCEPT ![r] = "done"]

(* A GET request arrives and issues redis.get(USERS_CACHE_KEY). *)
GetStart(r) ==
    /\ Resting(r)
    /\ pc' = [pc EXCEPT ![r] = "get"]
    /\ cached' = [cached EXCEPT ![r] = JsNull]
    /\ users' = [users EXCEPT ![r] = <<>>]
    /\ thrown' = [thrown EXCEPT ![r] = NoError]
    /\ resp' = [resp EXCEPT ![r] = NoResponse]
    /\ calls' = [calls EXCEPT ![r] = <<"redis.get">>]
    /\ hist' = OrderAtGet(r)
    /\ UNCHANGED <<redis, table, poolHeld, pending, idx, err, reqBody, tableAtStart, elapsed>>

(* What GET does with the value redis.get resolved to. *)
GetAfterProbe(r, c) ==
    IF Truthy(c)
    THEN /\ IF WellFormed(c.str)
            THEN /\ resp' = [resp EXCEPT ![r] = UsersResponse(JSONparse(c.str))]
                 /\ pc' = [pc EXCEPT ![r] = "done"]
                 /\ UNCHANGED thrown
            ELSE GetCatch(r, "SyntaxError")
         /\ UNCHANGED calls
    ELSE /\ pc' = [pc EXCEPT ![r] = "read"]
         /\ Issue(r, "pool.query")
         /\ UNCHANGED <<resp, thrown>>

(* Mutant of RedisGetOk: the probe is GETEX with the TTL, a sliding        *)
(* expiration that every hit renews.                                       *)
RedisGetExOk(r) ==
    /\ pc[r] = "get"
    /\ LET c == RedisGetValue(redis, USERS_CACHE_KEY)
       IN /\ cached' = [cached EXCEPT ![r] = c]
          /\ GetAfterProbe(r, c)
          /\ redis' = IF Truthy(c)
                      THEN RedisSetEx(redis, USERS_CACHE_KEY, c.str, USERS_CACHE_TTL)
                      ELSE redis
    /\ UNCHANGED <<table, poolHeld, users, pending, idx, err, reqBody, tableAtStart, elapsed, hist>>

RedisGetOk(r) ==
    /\ pc[r] = "get"
    /\ LET c == RedisGetValue(redis, USERS_CACHE_KEY)
       IN /\ cached' = [cached EXCEPT ![r] = c]
          /\ GetAfterProbe(r, c)
    /\ UNCHANGED <<redis, table, poolHeld, users, pending, idx, err, reqBody, tableAtStart, elapsed, hist>>

(* Mutant of RedisGetFail: a failed probe is logged and GET falls back to  *)
(* the database.                                                           *)
RedisGetFailFallback(r) ==
    /\ pc[r] = "get"
    /\ thrown' = [thrown EXCEPT ![r] = "redis.get"]
    /\ pc' = [pc EXCEPT ![r] = "read"]
    /\ Issue(r, "pool.query")
    /\ UNCHANGED <<redis, table, poolHeld, cached, users, pending, idx, err,
                   resp, reqBody, tableAtStart, elapsed, hist>>

RedisGetFail(r) ==
    /\ pc[r] = "get"
    /\ GetCatch(r, "redis.get")
    /\ UNCHANGED <<redis, table, poolHeld, cached, users, pending, idx, err,
                   calls, reqBody, tableAtStart, elapsed, hist>>

(* Mutant of ReadUsersOk: the query is DELETE ... RETURNING. *)
ReadUsersOkDeleting(r) ==
    /\ pc[r] = "read"
    /\ users' = [users EXCEPT ![r] = readUsers(table)]
    /\ table' = <<>>
    /\ pc' = [pc EXCEPT ![r] = "set"]
    /\ Issue(r, "redis.set")
    /\ UNCHANGED <<redis, poolHeld, cached, pending, idx, err, thrown,
                   resp, reqBody, tableAtStart, elapsed, hist>>

(* pool.query resolves: readUsers returns the rows; redis.set is issued. *)
ReadUsersOk(r) ==
    /\ pc[r] = "read"
    /\ users' = [users EXCEPT ![r] = readUsers(table)]
    /\ pc' = [pc EXCEPT ![r] = "set"]
    /\ Issue(r, "redis.set")
    /\ UNCHANGED <<redis, table, poolHeld, cached, pending, idx, err, thrown,
                   resp, reqBody, tableAtStart, elapsed, hist>>

ReadUsersFail(r) ==
    /\ pc[r] = "read"
    /\ GetCatch(r, "pool.query")
    /\ UNCHANGED <<redis, table, poolHeld, cached, users, pending, idx, err,
                   calls, reqBody, tableAtStart, elapsed, hist>>

(* Mutant of RedisSetOk: the populate is conditional on the table not      *)
(* having changed since the fetch (a versioned set).                       *)
RedisSetOkIfCurrent(r) ==
    /\ pc[r] = "set"
    /\ redis' = IF users[r] = table
                THEN RedisSetEx(redis, USERS_CACHE_KEY, JSONstringify(users[r]),
                                USERS_CACHE_TTL)
                ELSE redis
    /\ resp' = [resp EXCEPT ![r] = UsersResponse(users[r])]
    /\ pc' = [pc EXCEPT ![r] = "done"]
    /\ UNCHANGED <<table, poolHeld, cached, users, pending, idx, err, thrown,
                   calls, reqBody, tableAtStart, elapsed, hist>>

(* redis.set(USERS_CACHE_KEY, JSON.stringify(users), "EX", USERS_CACHE_TTL) *)
RedisSetOk(r) ==
    /\ pc[r] = "set"
    /\ redis' = RedisSetEx(redis, USERS_CACHE_KEY, JSONstringify(users[r]),
                           USERS_CACHE_TTL)
    /\ resp' = [resp EXCEPT ![r] = UsersResponse(users[r])]
    /\ pc' = [pc EXCEPT ![r] = "done"]
    /\ UNCHANGED <<table, poolHeld, cached, users, pending, idx, err, thrown,
                   calls, reqBody, tableAtStart, elapsed, hist>>

(* Mutant of RedisSetFail: a rejected redis.set is issued once more        *)
(* before the request gives up.                                            *)
RedisSetFailRetry(r) ==
    /\ pc[r] = "set"
    /\ IF Len(SelectSeq(calls[r], LAMBDA c : c = "redis.set")) < 2
       THEN /\ Issue(r, "redis.set")
            /\ UNCHANGED <<pc, thrown, resp>>
       ELSE /\ GetCatch(r, "redis.set")
            /\ UNCHANGED calls
    /\ UNCHANGED <<redis, table, poolHeld, cached, users, pending, idx, err,
                   reqBody, tableAtStart, elapsed, hist>>

RedisSetFail(r) ==
    /\ pc[r] = "set"
    /\ GetCatch(r, "redis.set")
    /\ UNCHANGED <<redis, table, poolHeld, cached, users, pending, idx, err,
                   calls, reqBody, tableAtStart, elapsed, hist>>

(***************************************************************************)
(* POST                                                                    *)
(***************************************************************************)
(* Mutant of PostCatch: the error's message is sent to the client. *)
PostCatchDetail(w, e) ==
    /\ thrown' = [thrown EXCEPT ![w] = e]
    /\ resp' = [resp EXCEPT ![w] =
                    [status |-> 500, json |-> <<"{", "error", e, "}">>]]
    /\ pc' = [pc EXCEPT ![w] = "done"]

(* catch (err) of POST: log the error, answer the generic failure. *)
PostCatch(w, e) ==
    /\ thrown' = [thrown EXCEPT ![w] = e]
    /\ resp' = [resp EXCEPT ![w] = WriteFailure]
    /\ pc' = [pc EXCEPT ![w] = "done"]

(* A POST request arrives; req.json() resolves or rejects; on success the  *)
(* body is normalized and writeUsers issues pool.connect().                *)
PostStart(w, body) ==
    /\ Resting(w)
    /\ pending' = [pending EXCEPT ![w] = <<>>]
    /\ idx' = [idx EXCEPT ![w] = 0]
    /\ err' = [err EXCEPT ![w] = NoError]
    /\ tableAtStart' = [tableAtStart EXCEPT ![w] = table]
    /\ reqBody' = [reqBody EXCEPT ![w] = body]
    /\ IF body.kind = "invalid"
       THEN /\ PostCatch(w, "SyntaxError")
            /\ users' = [users EXCEPT ![w] = <<>>]
            /\ calls' = [calls EXCEPT ![w] = <<>>]
            /\ UNCHANGED hist
       ELSE /\ users' = [users EXCEPT ![w] = Normalize(body)]
            /\ pc' = [pc EXCEPT ![w] = "connect"]
            /\ thrown' = [thrown EXCEPT ![w] = NoError]
            /\ resp' = [resp EXCEPT ![w] = NoResponse]
            /\ calls' = [calls EXCEPT ![w] = <<"pool.connect">>]
            /\ hist' = NoOrder
    /\ UNCHANGED <<redis, table, poolHeld, cached, elapsed>>

(* const client = await pool.connect(); client.query("BEGIN") is issued. *)
PoolConnectOk(w) ==
    /\ pc[w] = "connect"
    /\ poolHeld' = poolHeld + 1
    /\ pc' = [pc EXCEPT ![w] = "begin"]
    /\ Issue(w, "BEGIN")
    /\ UNCHANGED <<redis, table, cached, users, pending, idx, err, thrown,
                   resp, reqBody, tableAtStart, elapsed, hist>>

(* pool.connect() rejects outside the try of writeUsers. *)
PoolConnectFail(w) ==
    /\ pc[w] = "connect"
    /\ PostCatch(w, "pool.connect")
    /\ UNCHANGED <<redis, table, poolHeld, cached, users, pending, idx, err,
                   calls, reqBody, tableAtStart, elapsed, hist>>

(* The statement the for-loop issues at position i, or COMMIT after it. *)
NextStatement(w, i) ==
    IF i <= Len(users[w])
    THEN /\ pc' = [pc EXCEPT ![w] = "insert"]
         /\ Issue(w, "INSERT")
    ELSE /\ pc' = [pc EXCEPT ![w] = "commit"]
         /\ Issue(w, "COMMIT")

(* catch (err) of writeUsers: ROLLBACK is issued. *)
WriteCatch(w, e) ==
    /\ err' = [err EXCEPT ![w] = e]
    /\ pc' = [pc EXCEPT ![w] = "rollback"]
    /\ Issue(w, "ROLLBACK")

BeginOk(w) ==
    /\ pc[w] = "begin"
    /\ idx' = [idx EXCEPT ![w] = 1]
    /\ NextStatement(w, 1)
    /\ UNCHANGED <<redis, table, poolHeld, cached, users, pending, err,
                   thrown, resp, reqBody, tableAtStart, elapsed, hist>>

BeginFail(w) ==
    /\ pc[w] = "begin"
    /\ WriteCatch(w, "BEGIN")
    /\ UNCHANGED <<redis, table, poolHeld, cached, users, pending, idx,
                   thrown, resp, reqBody, tableAtStart, elapsed, hist>>

(* Mutant of InsertOk: the statement runs outside the transaction         *)
(* (pool.query instead of client.query) and commits at once.               *)
InsertOkAutocommit(w) ==
    /\ pc[w] = "insert"
    /\ InsertAccepted(users[w][idx[w]])
    /\ table' = Upsert(table, users[w][idx[w]])
    /\ idx' = [idx EXCEPT ![w] = @ + 1]
    /\ NextStatement(w, idx[w] + 1)
    /\ UNCHANGED <<redis, poolHeld, cached, users, pending, err, thrown, resp,
                   reqBody, tableAtStart, elapsed, hist>>

(* The upsert of users[idx] succeeds inside the open transaction. *)
InsertOk(w) ==
    /\ pc[w] = "insert"
    /\ InsertAccepted(users[w][idx[w]])
    /\ pending' = [pending EXCEPT ![w] = Append(@, users[w][idx[w]])]
    /\ idx' = [idx EXCEPT ![w] = @ + 1]
    /\ NextStatement(w, idx[w] + 1)
    /\ UNCHANGED <<redis, table, poolHeld, cached, users, err, thrown, resp,
                   reqBody, tableAtStart, elapsed, hist>>

InsertFail(w) ==
    /\ pc[w] = "insert"
    /\ WriteCatch(w, "INSERT")
    /\ UNCHANGED <<redis, table, poolHeld, cached, users, pending, idx,
                   thrown, resp, reqBody, tableAtStart, elapsed, hist>>

(* COMMIT makes the transaction's rows visible; finally releases the       *)
(* client; POST goes on to issue redis.del(USERS_CACHE_KEY).               *)
CommitOk(w) ==
    /\ pc[w] = "commit"
    /\ table' = ApplyAll(table, pending[w])
    /\ pending' = [pending EXCEPT ![w] = <<>>]
    /\ poolHeld' = poolHeld - 1
    /\ pc' = [pc EXCEPT ![w] = "del"]
    /\ calls' = [calls EXCEPT ![w] = @ \o <<"release", "redis.del">>]
    /\ UNCHANGED <<redis, cached, users, idx, err, thrown, resp, reqBody, tableAtStart, elapsed, hist>>

(* Mutant of CommitFail: the cache delete sits in a finally around the    *)
(* write, so it is issued after a rejected COMMIT as well.                 *)
CommitFailInvalidating(w) ==
    /\ pc[w] = "commit"
    /\ err' = [err EXCEPT ![w] = "COMMIT"]
    /\ pc' = [pc EXCEPT ![w] = "rollback"]
    /\ calls' = [calls EXCEPT ![w] = @ \o <<"redis.del", "ROLLBACK">>]
    /\ redis' = RedisDelKey(redis, USERS_CACHE_KEY)
    /\ UNCHANGED <<table, poolHeld, cached, users, pending, idx,
                   thrown, resp, reqBody, tableAtStart, elapsed, hist>>

(* A COMMIT the server rejects commits nothing. *)
CommitFail(w) ==
    /\ pc[w] = "commit"
    /\ WriteCatch(w, "COMMIT")
    /\ UNCHANGED <<redis, table, poolHeld, cached, users, pending, idx,
                   thrown, resp, reqBody, tableAtStart, elapsed, hist>>

(* ROLLBACK resolves: throw err; finally releases; POST catches err. *)
RollbackOk(w) ==
    /\ pc[w] = "rollback"
    /\ pending' = [pending EXCEPT ![w] = <<>>]
    /\ poolHeld' = poolHeld - 1
    /\ Issue(w, "release")
    /\ PostCatch(w, err[w])
    /\ UNCHANGED <<redis, table, cached, users, idx, err, reqBody, tableAtStart, elapsed, hist>>

(* Mutant of RollbackFail: release() sits after the catch block instead   *)
(* of in finally, so an error thrown by ROLLBACK skips it.                 *)
RollbackFailLeak(w) ==
    /\ pc[w] = "rollback"
    /\ pending' = [pending EXCEPT ![w] = <<>>]
    /\ PostCatch(w, "ROLLBACK")
    /\ UNCHANGED <<redis, table, poolHeld, cached, users, idx, err, calls,
                   reqBody, tableAtStart, elapsed, hist>>

(* ROLLBACK rejects inside catch: its error leaves writeUsers instead of   *)
(* err; finally still releases.  The server aborts the open transaction    *)
(* of a broken session.                                                    *)
RollbackFail(w) ==
    /\ pc[w] = "rollback"
    /\ pending' = [pending EXCEPT ![w] = <<>>]
    /\ poolHeld' = poolHeld - 1
    /\ Issue(w, "release")
    /\ PostCatch(w, "ROLLBACK")
    /\ UNCHANGED <<redis, table, cached, users, idx, err, reqBody, tableAtStart, elapsed, hist>>

(* Mutant of RedisDelOk: the snapshot is patched in place with the rows   *)
(* just written instead of being deleted.                                  *)
RedisDelOkPatch(w) ==
    /\ pc[w] = "del"
    /\ redis' = [k \in DOMAIN redis |->
                    [redis[k] EXCEPT
                        !.val = JSONstringify(ApplyAll(JSONparse(@), users[w]))]]
    /\ resp' = [resp EXCEPT ![w] = WriteSuccess(users[w])]
    /\ pc' = [pc EXCEPT ![w] = "done"]
    /\ elapsed' = 0
    /\ hist' = OrderAtPostEnd
    /\ UNCHANGED <<table, poolHeld, cached, users, pending, idx, err, thrown,
                   calls, reqBody, tableAtStart>>

RedisDelOk(w) ==
    /\ pc[w] = "del"
    /\ redis' = RedisDelKey(redis, USERS_CACHE_KEY)
    /\ resp' = [resp EXCEPT ![w] = WriteSuccess(users[w])]
    /\ pc' = [pc EXCEPT ![w] = "done"]
    /\ elapsed' = 0
    /\ hist' = OrderAtPostEnd
    /\ UNCHANGED <<table, poolHeld, cached, users, pending, idx, err, thrown,
                   calls, reqBody, tableAtStart>>

RedisDelFail(w) ==
    /\ pc[w] = "del"
    /\ PostCatch(w, "redis.del")
    /\ UNCHANGED <<redis, table, poolHeld, cached, users, pending, idx, err,
                   calls, reqBody, tableAtStart, elapsed, hist>>

(***************************************************************************)
(* Time: USERS_CACHE_TTL passes in TicksPerTTL ticks; Redis drops a key    *)
(* whose time to live has run out.                                         *)
(***************************************************************************)
Quantum == USERS_CACHE_TTL \div TicksPerTTL

Age(store, d) ==
    LET live == {k \in DOMAIN store : store[k].ttl > d}
    IN [k \in live |-> [store[k] EXCEPT !.ttl = @ - d]]

Tick ==
    /\ DOMAIN redis # {}
    /\ redis' = Age(redis, Quantum)
    /\ UNCHANGED <<table, poolHeld, pc, cached, users, pending, idx, err,
                   thrown, resp, calls, reqBody, tableAtStart, elapsed, hist>>

(* A step of a request in flight, or the arrival of a request. *)
Requests ==
    \/ \E r \in Readers : GetStart(r)
    \/ \E r \in Readers : RedisGetOk(r)
    \/ \E r \in Readers : RedisGetFail(r)
    \/ \E r \in Readers : ReadUsersOk(r)
    \/ \E r \in Readers : ReadUsersFail(r)
    \/ \E r \in Readers : RedisSetOk(r)
    \/ \E r \in Readers : RedisSetFail(r)
    \/ \E w \in Writers, body \in Bodies : PostStart(w, body)
    \/ \E w \in Writers : PoolConnectOk(w)
    \/ \E w \in Writers : PoolConnectFail(w)
    \/ \E w \in Writers : BeginOk(w)
    \/ \E w \in Writers : BeginFail(w)
    \/ \E w \in Writers : InsertOk(w)
    \/ \E w \in Writers : InsertFail(w)
    \/ \E w \in Writers : CommitOk(w)
    \/ \E w \in Writers : CommitFail(w)
    \/ \E w \in Writers : RollbackOk(w)
    \/ \E w \in Writers : RollbackFail(w)
    \/ \E w \in Writers : RedisDelOk(w)
    \/ \E w \in Writers : RedisDelFail(w)

Next == Requests \/ Tick

Spec == Init /\ [][Next]_vars

(***************************************************************************)
(* The same system with the stopwatch running: time passes whether or not  *)
(* the key is present, and `elapsed` measures it from the last successful  *)
(* redis.del, up to MaxElapsed.                                            *)
(***************************************************************************)
MaxElapsed == USERS_CACHE_TTL + Quantum

TimedTick ==
    /\ DOMAIN redis # {} \/ elapsed < MaxElapsed
    /\ redis' = Age(redis, Quantum)
    /\ elapsed' = IF elapsed + Quantum > MaxElapsed THEN MaxElapsed
                  ELSE elapsed + Quantum
    /\ UNCHANGED <<table, poolHeld, pc, cached, users, pending, idx, err,
                   thrown, resp, calls, reqBody, tableAtStart, hist>>

TimedNext == Requests \/ TimedTick

TimedSpec == Init /\ [][TimedNext]_vars

(***************************************************************************)
(* The system with every call answered: a request that is suspended at an  *)
(* await is resumed, with the call's result or with its rejection.         *)
(***************************************************************************)
ReaderStep(r) ==
    \/ RedisGetOk(r)
    \/ RedisGetFail(r)
    \/ ReadUsersOk(r)
    \/ ReadUsersFail(r)
    \/ RedisSetOk(r)
    \/ RedisSetFail(r)

WriterStep(w) ==
    \/ PoolConnectOk(w)
    \/ PoolConnectFail(w)
    \/ BeginOk(w)
    \/ BeginFail(w)
    \/ InsertOk(w)
    \/ InsertFail(w)
    \/ CommitOk(w)
    \/ CommitFail(w)
    \/ RollbackOk(w)
    \/ RollbackFail(w)
    \/ RedisDelOk(w)
    \/ RedisDelFail(w)

(* Bodies of at most SmallBatch records: the for-loop of writeUsers runs   *)
(* that many times at most.                                                *)
SmallBatch == 1

SmallBodies == {body \in Bodies : body.kind = "array" => Len(body.val) <= SmallBatch}

LiveNext ==
    \/ \E r \in Readers : GetStart(r)
    \/ \E r \in Readers : ReaderStep(r)
    \/ \E w \in Writers, body \in SmallBodies : PostStart(w, body)
    \/ \E w \in Writers : WriterStep(w)
    \/ Tick

LiveSpec ==
    /\ Init
    /\ [][LiveNext]_vars
    /\ \A r \in Readers : WF_vars(ReaderStep(r))
    /\ \A w \in Writers : WF_vars(WriterStep(w))

(***************************************************************************)
(* Properties                                                              *)
(***************************************************************************)
Has(log, call) == \E i \in 1..Len(log) : log[i] = call

CachePresent == USERS_CACHE_KEY \in DOMAIN redis

IdsOf(us) == {us[i].id : i \in 1..Len(us)}

RowsWith(us, id) == {us[i] : i \in {j \in 1..Len(us) : us[j].id = id}}

LastWith(us, id) ==
    us[CHOOSE i \in 1..Len(us) :
        /\ us[i].id = id
        /\ \A j \in 1..Len(us) : us[j].id = id => j <= i]

(* C1  Cache-hit short-circuit: when the probe of a GET finds a well-formed *)
(* snapshot under "users", the request ends in that step with status 200   *)
(* and exactly that snapshot as its body, having issued redis.get and      *)
(* nothing else (no store query, no cache write), and the cache is left as *)
(* it was.                                                                 *)
CacheHitShortCircuit ==
    [][\A r \in Readers :
         ( /\ pc[r] = "get" /\ pc'[r] # "get"
           /\ thrown'[r] # "redis.get"
           /\ "users" \in DOMAIN redis
           /\ WellFormed(redis["users"].val) )
         => /\ pc'[r] = "done"
            /\ resp'[r] = [status |-> 200, json |-> redis["users"].val]
            /\ calls'[r] = <<"redis.get">>
            /\ redis' = redis
            /\ table' = table]_vars

CacheHitWitness ==
    \E r \in Readers :
        /\ pc[r] = "done"
        /\ cached[r].type = "string"
        /\ Len(cached[r].str) > 2
        /\ resp[r] = [status |-> 200, json |-> cached[r].str]
        /\ calls[r] = <<"redis.get">>
        /\ cached[r].str # JSONstringify(table)

(* C2  Miss-then-populate: the store fetch of a GET yields the committed   *)
(* rows R, and when the cache set then succeeds the response is status 200 *)
(* with R as its body and the key "users" holds the serialization of       *)
(* exactly R with a time to live of 60; the empty R is cached and returned *)
(* like any other.                                                         *)
MissThenPopulate ==
    [][\A r \in Readers :
         /\ (pc[r] = "read" /\ pc'[r] = "set") => users'[r] = table
         /\ (pc[r] = "set" /\ pc'[r] = "done" /\ thrown'[r] = "<none>")
            => /\ resp'[r].status = 200
               /\ WellFormed(resp'[r].json)
               /\ JSONparse(resp'[r].json) = users[r]
               /\ DOMAIN redis' = {"users"}
               /\ redis'["users"].ttl = 60
               /\ redis'["users"].val = resp'[r].json
               /\ users[r] = <<>> => redis'["users"].val = <<"[", "]">>]_vars

MissThenPopulateWitness ==
    \E r \in Readers :
        /\ pc[r] = "done"
        /\ cached[r] = JsNull
        /\ resp[r].status = 200
        /\ Len(users[r]) = 2
        /\ users[r] = table
        /\ CachePresent
        /\ redis["users"].ttl = 60
        /\ JSONparse(redis["users"].val) = users[r]

(* C3  Write atomicity: when the Nth upsert of a POST fails, the committed *)
(* table after the call is the committed table before it and the response *)
(* is the generic write failure.                                           *)
WriteAtomicity ==
    \A w \in Writers :
        (pc[w] = "done" /\ err[w] = "INSERT")
        => /\ table = tableAtStart[w]
           /\ resp[w] = [status |-> 500,
                         json |-> <<"{", "error", "Failed to write users", "}">>]

WriteAtomicityWitness ==
    \E w \in Writers :
        /\ pc[w] = "done"
        /\ err[w] = "INSERT"
        /\ idx[w] = 2
        /\ users[w][1] \notin RowsWith(table, users[w][1].id)
        /\ table # <<>>
        /\ table = tableAtStart[w]

(* C4  Invalidation: when a POST answers success the key "users" is absent *)
(* from the cache, and an absent key becomes present only by the cache set *)
(* of a GET.                                                               *)
Invalidation ==
    [][/\ \A w \in Writers :
            (pc[w] = "del" /\ pc'[w] = "done" /\ resp'[w].status = 200)
            => RedisGetValue(redis', "users") = JsNull
       /\ ("users" \notin DOMAIN redis /\ "users" \in DOMAIN redis')
            => \E r \in Readers : pc[r] = "set" /\ pc'[r] = "done"]_vars

InvalidationWitness ==
    /\ \E w \in Writers :
        /\ pc[w] = "done"
        /\ resp[w].status = 200
        /\ Has(calls[w], "redis.del")
    /\ \E r \in Readers :
        /\ pc[r] = "done"
        /\ resp[r].status = 200
        /\ Has(calls[r], "redis.set")
    /\ ~CachePresent

(* C5  Upsert result: after a POST that answered success, every identifier *)
(* of the batch has exactly one row, the last record of the batch carrying *)
(* it, and every other identifier has the rows it had before the call.     *)
UpsertResult ==
    \A w \in Writers :
        (pc[w] = "done" /\ resp[w].status = 200)
        => /\ \A id \in IdsOf(users[w]) :
                RowsWith(table, id) = {LastWith(users[w], id)}
           /\ \A id \in (IdsOf(table) \cup IdsOf(tableAtStart[w])) \ IdsOf(users[w]) :
                RowsWith(table, id) = RowsWith(tableAtStart[w], id)
           /\ Cardinality(IdsOf(table)) = Len(table)

UpsertResultWitness ==
    \E w \in Writers :
        /\ pc[w] = "done"
        /\ resp[w].status = 200
        /\ Len(users[w]) = 2
        /\ users[w][1].id = users[w][2].id
        /\ users[w][1] # users[w][2]
        /\ RowsWith(tableAtStart[w], users[w][1].id) = {users[w][1]}
        /\ IdsOf(tableAtStart[w]) \ IdsOf(users[w]) # {}

(* C6  A POST that answers success answers { success: true, count } with   *)
(* count the number of records of its input: the length of an array body,  *)
(* 1 for an object body, duplicates of an identifier counted each.         *)
InputCount(body) == IF body.kind = "array" THEN Len(body.val) ELSE 1

CountIsInputCount ==
    \A w \in Writers :
        (pc[w] = "done" /\ resp[w].status = 200)
        => resp[w].json =
             <<"{", "success", "true", "count", ToString(InputCount(reqBody[w])), "}">>

CountIsInputCountWitness ==
    \E w \in Writers :
        /\ pc[w] = "done"
        /\ resp[w].status = 200
        /\ reqBody[w].kind = "array"
        /\ Len(reqBody[w].val) = 2
        /\ Cardinality(IdsOf(reqBody[w].val)) = 1
        /\ resp[w].json[5] = "2"

(* C7  A POST whose transaction committed and whose redis.del then failed  *)
(* still answers success with the count.                                   *)
DelFailureStillSuccess ==
    \A w \in Writers :
        (pc[w] = "done" /\ thrown[w] = "redis.del")
        => /\ resp[w].status = 200
           /\ resp[w].json[2] = "success"

ProbeFailureFallsBack ==
    \A r \in Readers :
        (pc[r] = "done" /\ thrown[r] = "redis.get")
        => /\ resp[r].status = 200
           /\ Has(calls[r], "pool.query")

(* C10  A GET whose cache set failed after a successful store fetch still  *)
(* answers status 200 with the rows it fetched.                            *)
PopulateFailureStillSuccess ==
    \A r \in Readers :
        (pc[r] = "done" /\ thrown[r] = "redis.set")
        => resp[r] = [status |-> 200, json |-> JSONstringify(users[r])]

Count(log, call) == Cardinality({i \in 1..Len(log) : log[i] = call})

Rows(us) == {us[i] : i \in 1..Len(us)}

WriterVars(w) ==
    <<pc[w], users[w], pending[w], idx[w], err[w], thrown[w], resp[w],
      calls[w], reqBody[w], tableAtStart[w]>>

(* C11  Write precondition: a POST whose normalized records are empty, or  *)
(* hold a record with no or an empty identifier, never acquires a          *)
(* connection (BEGIN is issued on an acquired connection), never issues an *)
(* upsert and never answers success.                                       *)
WritePrecondition ==
    \A w \in Writers :
        ( /\ pc[w] # "idle"
          /\ reqBody[w].kind # "invalid"
          /\ \/ users[w] = <<>>
             \/ \E i \in 1..Len(users[w]) : users[w][i].id \in {Undefined, ""} )
        => /\ ~Has(calls[w], "BEGIN")
           /\ ~Has(calls[w], "INSERT")
           /\ resp[w].status # 200

(* C12  A POST whose body is not JSON answers status 500 with { error:     *)
(* "Failed to write users" } in the step that takes it, issues no call at  *)
(* all, and leaves the pool, the table and the cache as they were.         *)
UnparseableBody ==
    [][\A w \in Writers :
         ( /\ Resting(w)
           /\ WriterVars(w)' # WriterVars(w)
           /\ reqBody'[w].kind = "invalid" )
         => /\ pc'[w] = "done"
            /\ resp'[w] = [status |-> 500,
                           json |-> <<"{", "error", "Failed to write users", "}">>]
            /\ calls'[w] = <<>>
            /\ poolHeld' = poolHeld
            /\ table' = table
            /\ redis' = redis]_vars

UnparseableBodyWitness ==
    \E w \in Writers :
        /\ pc[w] = "done"
        /\ reqBody[w].kind = "invalid"
        /\ thrown[w] = "SyntaxError"
        /\ resp[w].status = 500
        /\ calls[w] = <<>>
        /\ CachePresent
        /\ table # <<>>

(* C13  Connection release: a POST that has ended has released the         *)
(* connection exactly once if it acquired one and never otherwise, on      *)
(* every path, and when no POST is in flight no connection is held.        *)
ConnectionRelease ==
    /\ \A w \in Writers :
        Resting(w) =>
            Count(calls[w], "release") = IF Has(calls[w], "BEGIN") THEN 1 ELSE 0
    /\ (\A w \in Writers : Resting(w)) => poolHeld = 0
    /\ poolHeld \in 0..Cardinality(Writers)

ConnectionReleaseWitness ==
    \E w \in Writers :
        /\ pc[w] = "done"
        /\ thrown[w] = "ROLLBACK"
        /\ err[w] = "COMMIT"
        /\ Count(calls[w], "release") = 1
        /\ poolHeld = 0

(* C14  Failure responses are independent of cause: every GET that failed  *)
(* answers status 500 with { error: "Failed to fetch users" } and every    *)
(* POST that failed answers status 500 with { error: "Failed to write      *)
(* users" }, whichever call failed and with whatever error.                *)
FailureUniform ==
    /\ \A r \in Readers :
        (pc[r] = "done" /\ (thrown[r] # "<none>" \/ resp[r].status # 200))
        => resp[r] = [status |-> 500,
                      json |-> <<"{", "error", "Failed to fetch users", "}">>]
    /\ \A w \in Writers :
        (pc[w] = "done" /\ (thrown[w] # "<none>" \/ resp[w].status # 200))
        => resp[w] = [status |-> 500,
                      json |-> <<"{", "error", "Failed to write users", "}">>]

FailureUniformWitness ==
    /\ \E r \in Readers : pc[r] = "done" /\ thrown[r] = "pool.query"
    /\ \E w \in Writers : pc[w] = "done" /\ thrown[w] = "redis.del"

(* C15  Idempotent upsert: a POST of one record that is already stored     *)
(* with the same values (as it is after a first write of it) and that      *)
(* meets no rejected call answers success with count 1 and leaves the      *)
(* table with the rows it had.                                             *)
IdempotentUpsert ==
    \A w \in Writers :
        ( /\ pc[w] = "done"
          /\ thrown[w] = "<none>"
          /\ reqBody[w].kind # "invalid"
          /\ Len(users[w]) = 1
          /\ users[w][1] \in Rows(tableAtStart[w]) )
        => /\ resp[w] = [status |-> 200,
                         json |-> <<"{", "success", "true", "count", "1", "}">>]
           /\ Rows(table) = Rows(tableAtStart[w])
           /\ Len(table) = Len(tableAtStart[w])

IdempotentUpsertWitness ==
    \E w \in Writers :
        /\ pc[w] = "done"
        /\ thrown[w] = "<none>"
        /\ reqBody[w].kind = "object"
        /\ reqBody[w].val \in Rows(tableAtStart[w])
        /\ resp[w].status = 200
        /\ Len(table) = 2
        /\ Rows(table) = Rows(tableAtStart[w])

(* The outcome of a finished POST of one record u, as a function of u, the *)
(* table before the call and the call that was rejected.                   *)
SingleRecord(body) == IF body.kind = "array" THEN body.val[1] ELSE body.val

CallsOfSingleWrite(e, t) ==
    IF t = "pool.connect" THEN <<"pool.connect">>
    ELSE IF e = "BEGIN" THEN <<"pool.connect", "BEGIN", "ROLLBACK", "release">>
    ELSE IF e = "INSERT"
        THEN <<"pool.connect", "BEGIN", "INSERT", "ROLLBACK", "release">>
    ELSE IF e = "COMMIT"
        THEN <<"pool.connect", "BEGIN", "INSERT", "COMMIT", "ROLLBACK", "release">>
    ELSE <<"pool.connect", "BEGIN", "INSERT", "COMMIT", "release", "redis.del">>

SingleWriteOutcome ==
    \A w \in Writers :
        ( /\ pc[w] = "done"
          /\ reqBody[w].kind \in {"object", "array"}
          /\ InputCount(reqBody[w]) = 1 )
        => LET u == SingleRecord(reqBody[w])
               before == tableAtStart[w]
           IN /\ users[w] = <<u>>
              /\ calls[w] = CallsOfSingleWrite(err[w], thrown[w])
              /\ resp[w] =
                    IF thrown[w] = "<none>"
                    THEN [status |-> 200,
                          json |-> <<"{", "success", "true", "count", "1", "}">>]
                    ELSE [status |-> 500,
                          json |-> <<"{", "error", "Failed to write users", "}">>]
              /\ Rows(table) =
                    IF thrown[w] \in {"<none>", "redis.del"}
                    THEN (Rows(before) \ RowsWith(before, u.id)) \cup {u}
                    ELSE Rows(before)

(* The cache effect of a step of a POST of one record: the step that ends  *)
(* an accepted redis.del leaves the key absent, every other step leaves    *)
(* the cache as it was.                                                    *)
SingleWriteCacheStep ==
    \A w \in Writers :
        ( /\ WriterVars(w)' # WriterVars(w)
          /\ reqBody'[w].kind \in {"object", "array"}
          /\ InputCount(reqBody'[w]) = 1 )
        => IF pc[w] = "del" /\ thrown'[w] = "<none>"
           THEN USERS_CACHE_KEY \notin DOMAIN redis'
           ELSE redis' = redis

(* C16  Input normalization: the outcome of a POST of one record u is the  *)
(* same function of u, the state before the call and the call that was     *)
(* rejected, whether the body is the object u or the array [u]: the same   *)
(* statements in the same order, the same response (count 1 on success),   *)
(* the same table and the same effect on the cache.                        *)
NormalizationEquivalence ==
    /\ []SingleWriteOutcome
    /\ [][SingleWriteCacheStep]_vars

NormalizationEquivalenceWitness ==
    \E w \in Writers :
        /\ pc[w] = "done"
        /\ reqBody[w].kind = "object"
        /\ users[w] = <<reqBody[w].val>>
        /\ resp[w].status = 200
        /\ Count(calls[w], "INSERT") = 1
        /\ reqBody[w].val \in Rows(table)
        /\ reqBody[w].val \notin Rows(tableAtStart[w])

(* C17  The read operation never mutates persistent state: a step of a GET *)
(* leaves the committed table, the open transactions and the pool as they  *)
(* were; of the shared state it changes the cache at most.                 *)
ReadNeverMutates ==
    [][\A r \in Readers :
         pc'[r] # pc[r]
         => /\ table' = table
            /\ pending' = pending
            /\ poolHeld' = poolHeld
            /\ tableAtStart' = tableAtStart]_vars

ReadNeverMutatesWitness ==
    \E r \in Readers :
        /\ pc[r] = "done"
        /\ thrown[r] = "redis.set"
        /\ Len(users[r]) = 2
        /\ users[r] = table
        /\ \E w \in Writers : pc[w] = "insert" /\ pending[w] # <<>>

(* The value under the key is a serialization of whole rows, one per id. *)
SnapshotShape ==
    /\ DOMAIN redis \subseteq {USERS_CACHE_KEY}
    /\ CachePresent =>
          LET val == redis[USERS_CACHE_KEY].val
          IN /\ WellFormed(val)
             /\ JSONstringify(JSONparse(val)) = val
             /\ Cardinality(IdsOf(JSONparse(val))) = Len(JSONparse(val))
             /\ redis[USERS_CACHE_KEY].ttl \in 1..USERS_CACHE_TTL

(* What a GET holds between its fetch and its redis.set is the committed   *)
(* table of the moment of the fetch, and it stays what it was.             *)
FetchIsFullTable ==
    \A r \in Readers :
        /\ (pc[r] = "read" /\ pc'[r] = "set") => users'[r] = table
        /\ (pc[r] = "set") => users'[r] = users[r]

(* Every change of the cache is a wholesale replace by a GET's fetch       *)
(* result, a delete, or the passing of time (ttl down, value untouched).   *)
CacheChangeIsWholesale ==
    redis' # redis =>
        \/ \E r \in Readers :
              /\ pc[r] = "set"
              /\ redis' = (USERS_CACHE_KEY :> [val |-> JSONstringify(users[r]),
                                               ttl |-> USERS_CACHE_TTL])
        \/ DOMAIN redis' = {}
        \/ /\ CachePresent
           /\ USERS_CACHE_KEY \in DOMAIN redis'
           /\ redis'[USERS_CACHE_KEY].val = redis[USERS_CACHE_KEY].val
           /\ redis'[USERS_CACHE_KEY].ttl < redis[USERS_CACHE_KEY].ttl

(* C18  Snapshot invariant: in every reachable state the cache entry is    *)
(* absent or the serialization of the whole result of one fetch of the     *)
(* committed table; every change of it is a wholesale replace by such a    *)
(* result, a delete or an expiry, never a per-record or merged edit.       *)
SnapshotInvariant ==
    /\ []SnapshotShape
    /\ [][FetchIsFullTable /\ CacheChangeIsWholesale]_vars

SnapshotInvariantWitness ==
    /\ CachePresent
    /\ redis[USERS_CACHE_KEY].ttl < USERS_CACHE_TTL
    /\ Len(JSONparse(redis[USERS_CACHE_KEY].val)) = 2
    /\ redis[USERS_CACHE_KEY].val # JSONstringify(table)
    /\ \E w \in Writers : pc[w] = "del"

(* after is before with every record of the batch us upserted: the rows of *)
(* other ids as they were, and for each id of us its last record in us.    *)
AllApplied(before, us, after) ==
    /\ Rows(after) = {row \in Rows(before) : row.id \notin IdsOf(us)}
                        \cup {LastWith(us, id) : id \in IdsOf(us)}
    /\ Cardinality(IdsOf(after)) = Len(after)

InTransaction(w) == pc[w] \in {"connect", "begin", "insert", "commit", "rollback"}

(* While the transaction of a POST is open the committed table is the one  *)
(* the POST started from; once it has committed the whole batch is there.  *)
CommittedIsNoneOrAll ==
    \A w \in Writers :
        /\ InTransaction(w) => table = tableAtStart[w]
        /\ pc[w] = "del" => AllApplied(tableAtStart[w], users[w], table)

(* A fetch of a GET that runs while a POST is in flight returns the table  *)
(* with none or with all of the batch; the redis.set that follows stores   *)
(* exactly what that fetch returned.                                       *)
FetchSeesNoneOrAll ==
    \A r \in Readers :
        /\ (pc[r] = "read" /\ pc'[r] = "set") =>
              \A w \in Writers :
                  (InTransaction(w) \/ pc[w] = "del") =>
                      \/ users'[r] = tableAtStart[w]
                      \/ AllApplied(tableAtStart[w], users[w], users'[r])
        /\ (pc[r] = "set" /\ redis' # redis) =>
              /\ USERS_CACHE_KEY \in DOMAIN redis'
              /\ JSONparse(redis'[USERS_CACHE_KEY].val) = users[r]

(* C19  No partial writes are visible: the fetch of a GET that runs while  *)
(* a POST's transaction is open or has just committed sees none of the     *)
(* batch's upserts or all of them, never a strict non-empty subset, and    *)
(* the cache is populated with what that fetch saw.                        *)
NoPartialWrites ==
    /\ []CommittedIsNoneOrAll
    /\ [][FetchSeesNoneOrAll]_vars

NoPartialWritesWitness ==
    \E w \in Writers, r \in Readers :
        /\ pc[w] = "insert"
        /\ idx[w] = 2
        /\ Len(pending[w]) = 1
        /\ pending[w][1] \notin Rows(table)
        /\ pc[r] = "set"
        /\ users[r] = table
        /\ Has(calls[w], "INSERT")

(* C20  Bounded staleness: once a POST has committed and its redis.del has *)
(* been accepted, more than USERS_CACHE_TTL time units later the cache     *)
(* holds no data older than that write: a snapshot that is present then is *)
(* the serialization of the table the write left.                          *)
BoundedStaleness ==
    \A w \in Writers :
        ( /\ pc[w] = "done"
          /\ resp[w].status = 200
          /\ thrown[w] = "<none>"
          /\ elapsed > USERS_CACHE_TTL
          /\ CachePresent )
        => JSONparse(redis[USERS_CACHE_KEY].val) = table

(* A POST whose transaction failed, or is failing: a statement was         *)
(* rejected, or pool.connect was.                                          *)
WriteFailing(w) ==
    \/ err[w] # NoError
    \/ thrown[w] \in {"pool.connect", "ROLLBACK"}

(* redis.del is in the log of a POST only behind an accepted COMMIT and    *)
(* the release that follows it, and never on a failing path.               *)
DelOnlyAfterCommit ==
    \A w \in Writers :
        /\ Has(calls[w], "redis.del") =>
              /\ pc[w] \in {"del", "done"}
              /\ err[w] = NoError
              /\ calls[w][Len(calls[w])] = "redis.del"
              /\ calls[w][Len(calls[w]) - 2] = "COMMIT"
              /\ AllApplied(tableAtStart[w], users[w], table)
        /\ (pc[w] # "idle" /\ WriteFailing(w)) =>
              /\ ~Has(calls[w], "redis.del")
              /\ table = tableAtStart[w]

(* A step of a POST touches the cache only when it ends the redis.del.     *)
WriteTouchesCacheOnlyAtDel ==
    \A w \in Writers :
        (WriterVars(w)' # WriterVars(w) /\ pc[w] # "del") => redis' = redis

(* C21  Persist-then-invalidate ordering: within a POST redis.del is       *)
(* issued only after COMMIT was accepted; on every failing path of the     *)
(* transaction (pool.connect, BEGIN, an upsert or COMMIT rejected) no      *)
(* redis.del is issued and no step of the POST changes the cache.          *)
PersistThenInvalidate ==
    /\ []DelOnlyAfterCommit
    /\ [][WriteTouchesCacheOnlyAtDel]_vars

PersistThenInvalidateWitness ==
    \E w \in Writers :
        /\ pc[w] = "done"
        /\ err[w] = "COMMIT"
        /\ Has(calls[w], "COMMIT")
        /\ ~Has(calls[w], "redis.del")
        /\ CachePresent
        /\ Len(users[w]) = 2

(* C22  Rollback and re-signal: whenever BEGIN, an upsert or COMMIT is     *)
(* rejected inside the transaction, ROLLBACK is issued on the connection   *)
(* and the failure that reaches POST's catch is the one writeUsers caught, *)
(* also when the ROLLBACK itself is rejected.                              *)
RollbackResignalsOriginal ==
    \A w \in Writers :
        (pc[w] = "done" /\ err[w] # NoError)
        => /\ Has(calls[w], "ROLLBACK")
           /\ thrown[w] = err[w]

(* The POST has committed a change of the table and its redis.del was      *)
(* accepted: it answered success.                                          *)
WroteAndInvalidated(w) ==
    /\ pc[w] = "done"
    /\ thrown[w] = NoError
    /\ resp[w].status = 200
    /\ table # tableAtStart[w]

(* The redis.set of a GET that fetched before the commit is accepted after *)
(* the invalidation: it installs the pre-write rows and answers 200.       *)
LatePopulateInstallsStale ==
    \A r \in Readers, w \in Writers :
        ( /\ pc[r] = "set" /\ pc'[r] = "done" /\ thrown'[r] = NoError
          /\ WroteAndInvalidated(w)
          /\ users[r] = tableAtStart[w] )
        => /\ USERS_CACHE_KEY \in DOMAIN redis'
           /\ JSONparse(redis'[USERS_CACHE_KEY].val) = tableAtStart[w]
           /\ JSONparse(redis'[USERS_CACHE_KEY].val) # table'
           /\ redis'[USERS_CACHE_KEY].ttl = USERS_CACHE_TTL
           /\ resp'[r].status = 200
           /\ WroteAndInvalidated(w)'

(* A probe that finds a snapshot answers with it, whatever the table holds. *)
HitReturnsSnapshot ==
    \A r \in Readers :
        ( /\ pc[r] = "get" /\ pc'[r] = "done" /\ thrown'[r] = NoError )
        => /\ CachePresent
           /\ resp'[r] = [status |-> 200, json |-> redis[USERS_CACHE_KEY].val]
           /\ redis' = redis

(* C23  The populate/invalidate race: when a GET has fetched the table     *)
(* before a POST committed and its redis.set is accepted after the POST's  *)
(* redis.del, both requests end in success and the cache holds the         *)
(* pre-write rows, which differ from the committed table; a later GET that *)
(* finds them answers with them as a cache hit.                            *)
PopulateInvalidateRace ==
    [][LatePopulateInstallsStale /\ HitReturnsSnapshot]_vars

PopulateInvalidateRaceWitness ==
    \E r \in Readers, w \in Writers :
        /\ WroteAndInvalidated(w)
        /\ CachePresent
        /\ JSONparse(redis[USERS_CACHE_KEY].val) = tableAtStart[w]
        /\ JSONparse(redis[USERS_CACHE_KEY].val) # table
        /\ pc[r] = "done"
        /\ calls[r] = <<"redis.get">>
        /\ resp[r] = [status |-> 200, json |-> redis[USERS_CACHE_KEY].val]

(* A request in flight has no response yet and has issued no call twice    *)
(* (the upsert once per record); a finished request has the endpoint's     *)
(* success payload or its generic error payload, the latter exactly when   *)
(* an error reached the handler's catch.                                   *)
OneOutcome ==
    /\ \A p \in Procs :
          /\ (pc[p] \notin {"idle", "done"}) =>
                (resp[p] = NoResponse /\ thrown[p] = NoError)
          /\ \A c \in {"redis.get", "pool.query", "redis.set", "pool.connect",
                       "BEGIN", "COMMIT", "ROLLBACK", "release", "redis.del"} :
                Count(calls[p], c) <= 1
          /\ Count(calls[p], "INSERT") <= Len(users[p])
    /\ \A r \in Readers :
          pc[r] = "done" =>
              IF thrown[r] = NoError
              THEN /\ resp[r].status = 200
                   /\ WellFormed(resp[r].json)
              ELSE resp[r] = [status |-> 500,
                              json |-> <<"{", "error", "Failed to fetch users", "}">>]
    /\ \A w \in Writers :
          pc[w] = "done" =>
              IF thrown[w] = NoError
              THEN resp[w] = [status |-> 200,
                              json |-> <<"{", "success", "true", "count",
                                         ToString(Len(users[w])), "}">>]
              ELSE resp[w] = [status |-> 500,
                              json |-> <<"{", "error", "Failed to write users", "}">>]

(* The response of a request is produced once, in the step that ends it;   *)
(* it is cleared only by the arrival of the next request.                  *)
ResponseOnce ==
    \A p \in Procs :
        resp'[p] # resp[p] =>
            \/ /\ pc'[p] = "done"
               /\ resp'[p] # NoResponse
               /\ pc[p] # "done" \/ reqBody' # reqBody
            \/ /\ Resting(p)
               /\ ~Resting(p)'
               /\ resp'[p] = NoResponse

Terminates == \A p \in Procs : (pc[p] \notin {"idle", "done"}) ~> (pc[p] = "done")

(* C24  Every request terminates with exactly one outcome: given that each *)
(* Redis and PostgreSQL call resolves or rejects, every GET and every POST *)
(* in flight reaches its end, where it has exactly one response, the       *)
(* success payload or the generic error payload of its endpoint; no call   *)
(* is retried.                                                             *)
EveryRequestTerminates ==
    /\ []OneOutcome
    /\ [][ResponseOnce]_vars
    /\ Terminates

EveryRequestTerminatesWitness ==
    \E r \in Readers, w \in Writers :
        /\ pc[r] = "done"
        /\ thrown[r] = "redis.set"
        /\ resp[r].status = 500
        /\ pc[w] = "done"
        /\ thrown[w] = "ROLLBACK"
        /\ resp[w].status = 500
        /\ err[w] = "INSERT"
        /\ Count(calls[w], "INSERT") = 1

(* The step in which an accepted redis.set of a GET populates the cache. *)
PopulateStep ==
    \E r \in Readers : pc[r] = "set" /\ pc'[r] = "done" /\ thrown'[r] = NoError

(* The remaining life of the snapshot is USERS_CACHE_TTL right after a     *)
(* populate and is raised by nothing else: an entry present after any      *)
(* other step was present before it, with the same value and no more life. *)
LifeSetOnlyByPopulate ==
    CachePresent' =>
        IF PopulateStep
        THEN redis'[USERS_CACHE_KEY].ttl = USERS_CACHE_TTL
        ELSE /\ CachePresent
             /\ redis'[USERS_CACHE_KEY].val = redis[USERS_CACHE_KEY].val
             /\ redis'[USERS_CACHE_KEY].ttl <= redis[USERS_CACHE_KEY].ttl

(* The probe of a GET writes nothing to the cache, hit or miss, and a hit  *)
(* ends the request with redis.get as its only call.                       *)
ProbeWritesNothing ==
    \A r \in Readers :
        (pc[r] = "get" /\ pc'[r] # "get") =>
            /\ redis' = redis
            /\ (pc'[r] = "done" /\ thrown'[r] = NoError) => calls'[r] = <<"redis.get">>

(* The passing of Quantum time units (the one step that changes the cache  *)
(* and moves no request) takes Quantum off the remaining life and removes  *)
(* the entry whose life has run out.                                       *)
TimeWearsLife ==
    (redis' # redis /\ pc' = pc) =>
        /\ CachePresent
        /\ IF redis[USERS_CACHE_KEY].ttl > Quantum
           THEN /\ CachePresent'
                /\ redis'[USERS_CACHE_KEY].ttl = redis[USERS_CACHE_KEY].ttl - Quantum
           ELSE ~CachePresent'

(* C25  Cache hits do not extend a snapshot's life: the expiry is set only *)
(* by the populate of a GET that missed, a hit writes nothing to the       *)
(* cache, and time only wears the remaining life down, so a snapshot is    *)
(* gone USERS_CACHE_TTL time units after its populate at the latest,       *)
(* however many GETs hit it, unless another populate replaces it.          *)
HitsDoNotExtendLife ==
    /\ [](CachePresent => redis[USERS_CACHE_KEY].ttl \in 1..USERS_CACHE_TTL)
    /\ [][LifeSetOnlyByPopulate /\ ProbeWritesNothing /\ TimeWearsLife]_vars

HitsDoNotExtendLifeWitness ==
    \E r \in Readers :
        /\ CachePresent
        /\ redis[USERS_CACHE_KEY].ttl = Quantum
        /\ pc[r] = "done"
        /\ calls[r] = <<"redis.get">>
        /\ resp[r] = [status |-> 200, json |-> redis[USERS_CACHE_KEY].val]
        /\ Len(JSONparse(redis[USERS_CACHE_KEY].val)) = 1

(* The first GET after a finished POST, on its way: its probe finds the    *)
(* key absent, what it fetched is the committed table, and at its end,     *)
(* with no call rejected, it has issued the probe, the fetch and the       *)
(* populate and answers 200 with the committed table.                      *)
FreshReadSeesWrite ==
    \A r \in Readers :
        hist.fresh[r] =>
            /\ pc[r] = "get" => ~CachePresent
            /\ pc[r] = "set" => users[r] = table
            /\ (pc[r] = "done" /\ thrown[r] = NoError) =>
                  /\ calls[r] = <<"redis.get", "pool.query", "redis.set">>
                  /\ resp[r] = [status |-> 200, json |-> JSONstringify(table)]
                  /\ CachePresent => redis[USERS_CACHE_KEY].val = JSONstringify(table)

(* The populate of that GET stores the committed table with the full TTL. *)
FreshReadRepopulates ==
    \A r \in Readers :
        (hist.fresh[r] /\ pc[r] = "set" /\ pc'[r] = "done" /\ thrown'[r] = NoError)
        => redis' = (USERS_CACHE_KEY :> [val |-> JSONstringify(table'),
                                         ttl |-> USERS_CACHE_TTL])

(* C26  Sequential read-your-writes: when a POST has answered success      *)
(* while no GET was in flight, the next GET, with no call rejected and no  *)
(* POST arriving in between, misses the cache, fetches the table, answers  *)
(* with exactly the committed rows the POST left and stores them in the    *)
(* cache.                                                                  *)
ReadYourWrites ==
    /\ []FreshReadSeesWrite
    /\ [][FreshReadRepopulates]_vars

ReadYourWritesWitness ==
    \E r \in Readers, w \in Writers :
        /\ hist.fresh[r]
        /\ pc[r] = "done"
        /\ thrown[r] = NoError
        /\ pc[w] = "done"
        /\ resp[w].status = 200
        /\ Len(table) = 2
        /\ table # tableAtStart[w]
        /\ CachePresent
        /\ resp[r].json = redis[USERS_CACHE_KEY].val

====
